---- MODULE Spec2Model ----
(***************************************************************************)
(* Model of the scripted MCP test harnesses of mcp-lsp-bridge:             *)
(*   scripts/mcp_external_test.py  (MCPExternalTestRunner, "ext")          *)
(*   scripts/test_mcp_external.py  (MCPTestClient,         "client")       *)
(*   scripts/test_mcp_tools.py     (MCPToolRunner,         "tool")         *)
(* One behaviour is one run of one script against one spawned server.      *)
(***************************************************************************)
EXTENDS Integers, Sequences, FiniteSets, TLC

\* ------------------------------------------------------------------ bounds
\* longest command sequence handed to run_test_sequence
MaxSteps == 3
\* number of scripted requests of run_all_tests kept in the model
MaxTests == 2
\* number of distinct values uuid.uuid4() is drawn from
NumUUIDs == 2
\* most command strings given on one command line (sys.argv[1:])
MaxArgs == 2

\* ------------------------------------------------------------ value model
None == [k |-> "None"]

\* request ids: an integer counter value, or a uuid4 string
IntId(n) == [kind |-> "int", val |-> n]
UuidId(u) == [kind |-> "uuid", val |-> u]

\* python values held in a parameter mapping
PyStr(s) == [ty |-> "str", c |-> s]
PyInt(n) == [ty |-> "int", n |-> n]
PyBool(b) == [ty |-> "bool", b |-> b]
PyDict(d) == [ty |-> "dict", c |-> d]

\* one response line as the server writes it
ResultLine(i, p) == [k |-> "result", id |-> i, payload |-> p]
ErrorLine(i) == [k |-> "error", id |-> i, payload |-> "err"]
NeitherLine(i) == [k |-> "neither", id |-> i, payload |-> "none"]
EmptyObjectLine == [k |-> "empty_object", id |-> None, payload |-> "none"]
MalformedLine == [k |-> "malformed", id |-> None, payload |-> "none"]
BlankLine == [k |-> "blank", id |-> None, payload |-> "none"]
EOFLine == [k |-> "eof", id |-> None, payload |-> "none"]

Payloads == {"p1", "p2"}

ServerLines(i) ==
    {ResultLine(i, p) : p \in Payloads}
        \cup {ErrorLine(i), NeitherLine(i), EmptyObjectLine, MalformedLine, BlankLine}

\* json.loads(response_line.strip()): the decoded object, or a raised error
JsonFails(line) == line.k \in {"malformed", "blank", "eof"}

\* `"error" in response`
HasError(resp) == resp.k = "error"

\* python truthiness of a decoded response / of None
Truthy(v) == v # None /\ v.k # "empty_object"

\* ------------------------------------------------- python dict as a sequence
\* a dict keeps insertion order; an entry is [key, val]
DictKeys(d) == {d[i].key : i \in 1..Len(d)}

DictGet(d, k) == (CHOOSE i \in 1..Len(d) : d[i].key = k)

DictLookup(d, k) == d[DictGet(d, k)].val

\* d[k] = v
DictSet(d, k, v) ==
    IF k \in DictKeys(d)
    THEN [d EXCEPT ![DictGet(d, k)] = [key |-> k, val |-> v]]
    ELSE Append(d, [key |-> k, val |-> v])

\* ------------------------------------------------------------- python str
\* a text is a string; s[i] is the one-character string At(s, i)
At(s, i) == SubSeq(s, i, i)

CharsOf(s) == {At(s, i) : i \in 1..Len(s)}

ascii_lowercase == "abcdefghijklmnopqrstuvwxyz"
ascii_uppercase == "ABCDEFGHIJKLMNOPQRSTUVWXYZ"
digits == "0123456789"

\* [a-zA-Z0-9_], and \w on the texts of the model
WordChars ==
    CharsOf(ascii_lowercase) \cup CharsOf(ascii_uppercase) \cup CharsOf(digits) \cup {"_"}

\* \s, and the characters str.strip() removes
SpaceChars == {" ", "\t", "\n", "\r"}

startswith(s, prefix) == Len(prefix) <= Len(s) /\ SubSeq(s, 1, Len(prefix)) = prefix

endswith(s, suffix) ==
    Len(suffix) <= Len(s) /\ SubSeq(s, Len(s) - Len(suffix) + 1, Len(s)) = suffix

\* the text continues with p at position i
StartsAt(s, i, p) == i + Len(p) - 1 <= Len(s) /\ SubSeq(s, i, i + Len(p) - 1) = p

Min(S) == CHOOSE x \in S : \A y \in S : x <= y

Max(S) == CHOOSE x \in S : \A y \in S : x >= y

\* the first position from i on whose character is not in cls (a greedy cls*)
Span(s, i, cls) ==
    CHOOSE j \in i..Max({i, Len(s) + 1}) :
        /\ j > Len(s) \/ At(s, j) \notin cls
        /\ \A k \in i..(j - 1) : At(s, k) \in cls

\* the last position up to i whose character is not in cls
SpanBack(s, i, cls) ==
    CHOOSE j \in Min({i, 0})..i :
        /\ j < 1 \/ At(s, j) \notin cls
        /\ \A k \in (j + 1)..i : At(s, k) \in cls

\* the bullet U+25CF the command lines may start with; the texts of the model
\* are kept in ASCII, so one character outside every class of the patterns
\* stands for it
Bullet == "@"

\* s.strip(chars)
strip_chars(s, cls) ==
    LET a == Span(s, 1, cls)
        b == SpanBack(s, Len(s), cls)
    IN IF a > b THEN "" ELSE SubSeq(s, a, b)

\* s.strip()
strip(s) == strip_chars(s, SpaceChars)

\* the first position from i on that holds c, 0 when there is none
Find(s, i, c) ==
    LET at == {j \in i..Len(s) : At(s, j) = c} IN IF at = {} THEN 0 ELSE Min(at)

\* the last position up to i that holds c, 0 when there is none
RFind(s, i, c) ==
    LET at == {j \in 1..i : At(s, j) = c} IN IF at = {} THEN 0 ELSE Max(at)

\* s.replace(old, new)
RECURSIVE replace(_, _, _)
replace(s, old, new) ==
    LET at == {j \in 1..Len(s) : StartsAt(s, j, old)}
    IN IF at = {} THEN s
       ELSE SubSeq(s, 1, Min(at) - 1) \o new
                \o replace(SubSeq(s, Min(at) + Len(old), Len(s)), old, new)

\* s.isdigit()
isdigit(s) == s # "" /\ \A i \in 1..Len(s) : At(s, i) \in CharsOf(digits)

DigitValue(c) == (CHOOSE i \in 1..10 : At(digits, i) = c) - 1

\* int(s) of a digit string
RECURSIVE int(_)
int(s) ==
    IF s = "" THEN 0
    ELSE int(SubSeq(s, 1, Len(s) - 1)) * 10 + DigitValue(At(s, Len(s)))

\* str(n) of an integer
RECURSIVE str(_)
str(n) ==
    IF n < 0 THEN "-" \o str(0 - n)
    ELSE IF n < 10 THEN At(digits, n + 1)
    ELSE str(n \div 10) \o At(digits, (n % 10) + 1)

\* ------------------------------------ mcp_external_test.py: command parsing
\* a command line and what the regular expressions of the script capture from
\* it, taken once when the line is handed over:
\*   line     the line as given
\*   fmt      whether the command pattern matches
\*   tool     group(1)
\*   params   the parameter captures, in order
Command(line, fmt, tool, params) ==
    [line |-> line, fmt |-> fmt, tool |-> tool, params |-> params]

Param(key, value) == [key |-> key, value |-> value]

\* line 174: command_string.replace(bullet, '').strip()
command_string(line) == strip(replace(line, Bullet, ""))

\* the end of the value alternatives "(?:\\.|[^"])*" | \$\{[^}]+\} | [0-9]+ of
\* line 191 tried at position v, 0 when none matches (the texts of the model
\* hold no backslash)
value_end(s, v) ==
    IF v > Len(s) THEN 0
    ELSE IF At(s, v) = "\""
    THEN LET q == Find(s, v + 1, "\"") IN IF q > 0 THEN q + 1 ELSE 0
    ELSE IF StartsAt(s, v, "${")
    THEN LET r == Find(s, v + 2, "}") IN IF r > v + 2 THEN r + 1 ELSE 0
    ELSE IF At(s, v) \in CharsOf(digits) THEN Span(s, v, CharsOf(digits))
    ELSE 0

\* the end of a match of (\w+):\s*(...) of line 191 started at i, 0 when none
param_end(s, i) ==
    LET k == Span(s, i, WordChars)
    IN IF k > i /\ k <= Len(s) /\ At(s, k) = ":"
       THEN value_end(s, Span(s, k + 1, SpaceChars)) ELSE 0

\* re.findall of line 191 from position i on: the (key, value) captures
RECURSIVE param_matches(_, _)
param_matches(s, i) ==
    LET at == {j \in i..Len(s) : param_end(s, j) > 0}
    IN IF at = {} THEN <<>>
       ELSE LET m == Min(at)
                k == Span(s, m, WordChars)
                v == Span(s, k + 1, SpaceChars)
                e == param_end(s, m)
            IN <<Param(SubSeq(s, m, k - 1), SubSeq(s, v, e - 1))>>
                   \o param_matches(s, e)

\* lines 174-191: tool_match on the cleaned line, then the parameter captures
ext_captures(line) ==
    LET s == command_string(line)
        a == 5
        b == Span(s, a, WordChars)
        c == Span(s, b, SpaceChars)
        d == c + 6
        e == RFind(s, Len(s), ")")
    IN IF startswith(s, "lsp:") /\ b > a /\ StartsAt(s, c, "(MCP)(") /\ e > d
       THEN Command(line, TRUE, SubSeq(s, a, b - 1),
                    param_matches(SubSeq(s, d, e - 1), 1))
       ELSE Command(line, FALSE, "", <<>>)

\* lines 193-211: one captured (key, value) pair to the stored python value
parse_value(key, value) ==
    LET v1 == IF startswith(value, "\"") /\ endswith(value, "\"")
              THEN SubSeq(value, 2, Len(value) - 1) ELSE value
        v2 == IF isdigit(v1) THEN PyInt(int(v1)) ELSE PyStr(v1)
        v3 == IF v2.ty = "str" /\ startswith(v2.c, "${") /\ endswith(v2.c, "}")
              THEN PyStr("<VAR:" \o SubSeq(v2.c, 3, Len(v2.c) - 1) \o ">") ELSE v2
        text == IF v3.ty = "int" THEN str(v3.n) ELSE v3.c
    IN IF key = "workspace_uri"
       THEN PyStr(strip_chars(replace(text, "\"\"", "\""), {"\""}))
       ELSE v3

RECURSIVE parse_params(_, _)
parse_params(matches, acc) ==
    IF matches = <<>> THEN acc
    ELSE parse_params(Tail(matches),
                      DictSet(acc, Head(matches).key,
                              parse_value(Head(matches).key, Head(matches).value)))

\* mutant: a command is returned whatever the patterns matched
parse_command_NoFormatCheck(cmd) ==
    [k |-> "MCPToolCommand", tool_name |-> cmd.tool,
     parameters |-> parse_params(cmd.params, <<>>)]

\* lines 171-222: None, or the MCPToolCommand
parse_command(cmd) ==
    IF ~cmd.fmt THEN None
    ELSE LET params == parse_params(cmd.params, <<>>)
         IN IF params = <<>> THEN None
            ELSE [k |-> "MCPToolCommand", tool_name |-> cmd.tool, parameters |-> params]

\* what parse_command prints when it returns None: line 179 when the command
\* pattern does not match, line 220 when no parameter was captured
parse_command_error(cmd) ==
    IF ~cmd.fmt THEN "Invalid command format: " \o command_string(cmd.line)
    ELSE "Failed to parse parameters: No valid parameters found"

\* ----------------------------- mcp_external_test.py: variable interpolation
\* line 228: the value is a placeholder written by parse_command
IsVarPlaceholder(v) == v.ty = "str" /\ startswith(v.c, "<VAR:") /\ endswith(v.c, ">")

\* line 229: value[5:-1]
var_name(v) == SubSeq(v.c, 6, Len(v.c) - 1)

\* mutant: a name that is not defined falls back to the last result
resolve_value_Default(v, context) ==
    IF IsVarPlaceholder(v)
    THEN IF var_name(v) \in DictKeys(context.variables) /\ var_name(v) # "last_result"
         THEN [raised |-> FALSE, val |-> DictLookup(context.variables, var_name(v))]
         ELSE [raised |-> FALSE, val |-> PyDict(context.last_result)]
    ELSE [raised |-> FALSE, val |-> v]

\* mutant: the value is passed on as it is
resolve_value_PassThrough(v, context) == [raised |-> FALSE, val |-> v]

\* mutant: a missing last_result is passed on instead of raising
resolve_value_NoRaise(v, context) ==
    IF IsVarPlaceholder(v)
    THEN IF var_name(v) = "last_result"
         THEN [raised |-> FALSE, val |-> PyDict(context.last_result)]
         ELSE IF var_name(v) \in DictKeys(context.variables)
              THEN [raised |-> FALSE, val |-> DictLookup(context.variables, var_name(v))]
              ELSE [raised |-> TRUE, val |-> "Undefined variable " \o var_name(v)]
    ELSE [raised |-> FALSE, val |-> v]

\* lines 228-244 for one value: the resolved value, or the ValueError raised
resolve_value(v, context) ==
    IF IsVarPlaceholder(v)
    THEN IF var_name(v) = "last_result"
         THEN IF Truthy(context.last_result)
              THEN [raised |-> FALSE, val |-> PyDict(context.last_result)]
              ELSE [raised |-> TRUE,
                    val |-> "No previous result available for variable " \o var_name(v)]
         ELSE IF var_name(v) \in DictKeys(context.variables)
              THEN [raised |-> FALSE, val |-> DictLookup(context.variables, var_name(v))]
              ELSE [raised |-> TRUE, val |-> "Undefined variable " \o var_name(v)]
    ELSE [raised |-> FALSE, val |-> v]

RECURSIVE interpolate_from(_, _, _)
interpolate_from(params, context, acc) ==
    IF params = <<>> THEN [raised |-> FALSE, params |-> acc, error |-> "none"]
    ELSE LET r == resolve_value(Head(params).val, context)
         IN IF r.raised
            THEN [raised |-> TRUE, params |-> <<>>, error |-> r.val]
            ELSE interpolate_from(Tail(params), context,
                                  DictSet(acc, Head(params).key, r.val))

\* lines 224-246
interpolate_variables(params, context) == interpolate_from(params, context, <<>>)

\* ---------------------------------------- test_mcp_tools.py: command parsing
\* the end of the name [a-zA-Z0-9_]+(?::[a-zA-Z0-9_]+)* of line 81 started at i
RECURSIVE NameEnd(_, _)
NameEnd(s, i) ==
    LET w == Span(s, i, WordChars)
    IN IF w > i /\ w < Len(s) /\ At(s, w) = ":" /\ At(s, w + 1) \in WordChars
       THEN NameEnd(s, w + 1) ELSE w

\* split_complex_params (lines 101-123), the loop from character i on
RECURSIVE split_loop(_, _, _, _, _)
split_loop(s, i, params, current, bracket_level) ==
    IF i > Len(s)
    THEN IF current # "" THEN Append(params, strip(current)) ELSE params
    ELSE LET char == At(s, i)
         IN IF char \in {"[", "{", "("} /\ bracket_level = 0
            THEN split_loop(s, i + 1, params, current \o char, bracket_level + 1)
            ELSE IF char \in {"]", "}", ")"} /\ bracket_level > 0
            THEN IF bracket_level - 1 = 0
                 THEN split_loop(s, i + 1, Append(params, current \o char), "", 0)
                 ELSE split_loop(s, i + 1, params, current \o char, bracket_level - 1)
            ELSE IF char = "," /\ bracket_level = 0
            THEN IF current # ""
                 THEN split_loop(s, i + 1, Append(params, strip(current)), "", 0)
                 ELSE split_loop(s, i + 1, params, "", 0)
            ELSE split_loop(s, i + 1, params, current \o char, bracket_level)

split_complex_params(s) == split_loop(s, 1, <<>>, "", 0)

\* lines 77-91 and 127: the match of the command pattern on the stripped line,
\* group(1), and the segments split_complex_params cuts group(2) into
tool_captures(line) ==
    LET s == strip(line)
        a == IF startswith(s, Bullet) THEN Span(s, 2, SpaceChars) ELSE 1
        b == NameEnd(s, a)
        c == Span(s, b, SpaceChars)
        t == IF StartsAt(s, c, "(MCP)") THEN Span(s, c + 5, SpaceChars) ELSE 0
        with_tag == t > 0 /\ t < Len(s) /\ At(s, t) = "("
        no_tag == c < Len(s) /\ At(s, c) = "("
        p == IF with_tag THEN t ELSE c
    IN IF b > a /\ endswith(s, ")") /\ (with_tag \/ no_tag)
       THEN Command(line, TRUE, SubSeq(s, a, b - 1),
                    split_complex_params(SubSeq(s, p + 1, Len(s) - 1)))
       ELSE Command(line, FALSE, "", <<>>)

\* python values a literal can denote besides str, int and bool
PyNone == [ty |-> "NoneType"]
PyList(items) == [ty |-> "list", items |-> items]
PyTuple(items) == [ty |-> "tuple", items |-> items]
PySet(items) == [ty |-> "set", items |-> items]
PyDictLiteral(items) == [ty |-> "dict", items |-> items]

NoLiteral == [ok |-> FALSE, val |-> PyNone, end |-> 0]

Literal(val, end) == [ok |-> TRUE, val |-> val, end |-> end]

\* a decimal integer token: no leading zero unless it is all zeros
IsDecimal(d) == isdigit(d) /\ (At(d, 1) # "0" \/ \A i \in 1..Len(d) : At(d, i) = "0")

\* ast.literal_eval on the literals the texts of the model hold: integers with
\* an optional sign, quoted strings without escapes, True, False, None, and
\* lists, tuples, sets and dicts of these. literal_at reads one literal from
\* position i0 on; literal_items reads the items of a bracket up to `close`.
\* the value of a bracket opened by `open` whose items literal_items read as r
collection_literal(open, r) ==
    LET vals == [n \in 1..Len(r.val) |-> r.val[n].val]
        pairs == \A n \in 1..Len(r.val) : r.val[n].pair
        plain == \A n \in 1..Len(r.val) : ~r.val[n].pair
    IN IF ~r.ok THEN NoLiteral
       ELSE IF open = "[" /\ plain THEN Literal(PyList(vals), r.end)
       ELSE IF open = "(" /\ plain
       THEN IF Len(vals) = 1 /\ ~r.comma THEN Literal(vals[1], r.end)
            ELSE Literal(PyTuple(vals), r.end)
       ELSE IF open = "{" /\ pairs
       THEN Literal(PyDictLiteral([n \in 1..Len(r.val) |->
                        [key |-> r.val[n].key, val |-> r.val[n].val]]), r.end)
       ELSE IF open = "{" /\ plain THEN Literal(PySet(vals), r.end)
       ELSE NoLiteral

\* the bracket that closes `open`
closing(open) == CASE open = "[" -> "]" [] open = "(" -> ")" [] open = "{" -> "}"

\* a signed integer: the sign at i, the digits from j to e - 1
signed_literal(s, i, j, e) ==
    IF IsDecimal(SubSeq(s, j, e - 1))
    THEN Literal(PyInt(IF At(s, i) = "-" THEN 0 - int(SubSeq(s, j, e - 1))
                       ELSE int(SubSeq(s, j, e - 1))), e)
    ELSE NoLiteral

\* a number or a name: the word from i to w - 1
word_literal(word, w) ==
    IF word = "" THEN NoLiteral
    ELSE IF At(word, 1) \in CharsOf(digits)
    THEN IF IsDecimal(word) THEN Literal(PyInt(int(word)), w) ELSE NoLiteral
    ELSE IF word = "True" THEN Literal(PyBool(TRUE), w)
    ELSE IF word = "False" THEN Literal(PyBool(FALSE), w)
    ELSE IF word = "None" THEN Literal(PyNone, w)
    ELSE NoLiteral

\* a quoted string from the quote at i to the next quote of the same kind at q
string_literal(s, i, q) ==
    IF q = 0 THEN NoLiteral ELSE Literal(PyStr(SubSeq(s, i + 1, q - 1)), q + 1)

RECURSIVE literal_from(_, _), literal_items(_, _, _, _, _)
literal_from(s, i) ==
    IF i > Len(s) THEN NoLiteral
    ELSE IF At(s, i) \in {"\"", "'"} THEN string_literal(s, i, Find(s, i + 1, At(s, i)))
    ELSE IF At(s, i) \in {"+", "-"}
    THEN signed_literal(s, i, Span(s, i + 1, SpaceChars),
                        Span(s, Span(s, i + 1, SpaceChars), WordChars))
    ELSE IF At(s, i) \in {"[", "(", "{"}
    THEN collection_literal(At(s, i),
                            literal_items(s, i + 1, closing(At(s, i)), <<>>, FALSE))
    ELSE word_literal(SubSeq(s, i, Span(s, i, WordChars) - 1), Span(s, i, WordChars))

\* one literal from position i0 on, blank space skipped
literal_at(s, i0) == literal_from(s, Span(s, i0, SpaceChars))

literal_items(s, i0, close, acc, comma) ==
    LET i == Span(s, i0, SpaceChars)
        failed == [ok |-> FALSE, val |-> <<>>, end |-> 0, comma |-> FALSE]
    IN IF i > Len(s) THEN failed
       ELSE IF At(s, i) = close
       THEN [ok |-> TRUE, val |-> acc, end |-> i + 1, comma |-> comma]
       ELSE IF acc # <<>> /\ ~comma THEN failed
       ELSE LET v == literal_at(s, i)
                k == Span(s, v.end, SpaceChars)
                colon == close = "}" /\ k <= Len(s) /\ At(s, k) = ":"
                u == literal_at(s, k + 1)
                item == IF colon THEN [pair |-> TRUE, key |-> v.val, val |-> u.val]
                        ELSE [pair |-> FALSE, key |-> PyNone, val |-> v.val]
                m == Span(s, IF colon THEN u.end ELSE v.end, SpaceChars)
            IN IF ~v.ok \/ (colon /\ ~u.ok) THEN failed
               ELSE IF m <= Len(s) /\ At(s, m) = ","
               THEN literal_items(s, m + 1, close, Append(acc, item), TRUE)
               ELSE literal_items(s, m, close, Append(acc, item), FALSE)

\* ast.literal_eval(value): the value, or ok = FALSE for ValueError / SyntaxError
whole_literal(value, r) ==
    IF r.ok /\ Span(value, r.end, SpaceChars) > Len(value) THEN r ELSE NoLiteral

literal_eval(value) == whole_literal(value, literal_at(value, 1))

\* lines 132-137: ast.literal_eval of one value, else the text without quotes
literal_or_text(value, r) ==
    IF r.ok THEN r.val ELSE PyStr(strip_chars(value, {"\"", "'"}))

tool_parse_value(value) == literal_or_text(value, literal_eval(value))

\* the loop of lines 127-139 over the segments; a segment without "=" raises in
\* the unpacking of line 128, which line 140 catches: the loop ends there
RECURSIVE tool_parse_params(_, _)
tool_parse_params(segments, acc) ==
    IF segments = <<>> THEN acc
    ELSE LET param == Head(segments)
             eq == Find(param, 1, "=")
             key == strip(SubSeq(param, 1, eq - 1))
             value == strip(SubSeq(param, eq + 1, Len(param)))
         IN IF eq = 0 THEN acc
            ELSE tool_parse_params(Tail(segments),
                                   DictSet(acc, key, tool_parse_value(value)))

\* parse_mcp_command (lines 68-144): the ValueError, or (tool_name, params);
\* group(1) keeps the namespace segment
parse_mcp_command(cmd) ==
    IF ~cmd.fmt
    THEN [raised |-> TRUE, error |-> "Invalid MCP command format: " \o strip(cmd.line),
          tool_name |-> "none", params |-> <<>>]
    ELSE [raised |-> FALSE, error |-> "none", tool_name |-> cmd.tool,
          params |-> tool_parse_params(cmd.params, <<>>)]

\* ------------------------------------- test_lsp_command.py: argument parsing
\* c.lower() of one character
lower_char(c) ==
    IF c \in CharsOf(ascii_uppercase)
    THEN At(ascii_lowercase, CHOOSE i \in 1..Len(ascii_uppercase) : At(ascii_uppercase, i) = c)
    ELSE c

\* s.lower()
RECURSIVE lower(_)
lower(s) == IF s = "" THEN "" ELSE lower_char(At(s, 1)) \o lower(Tail(s))

\* lines 37-45: the value stored for the text right of the "="
lsp_parse_value(text) ==
    LET value == strip_chars(strip(text), {"\"", "'"})
    IN IF isdigit(value) THEN PyInt(int(value))
       ELSE IF lower(value) \in {"true", "false"} THEN PyBool(lower(value) = "true")
       ELSE PyStr(value)

\* parse_command_args (lines 27-47): an argument without "=" is skipped
RECURSIVE lsp_parse_args(_, _)
lsp_parse_args(args_list, params) ==
    IF args_list = <<>> THEN params
    ELSE LET arg == Head(args_list)
             eq == Find(arg, 1, "=")
             key == strip(SubSeq(arg, 1, eq - 1))
         IN IF eq = 0 THEN lsp_parse_args(Tail(args_list), params)
            ELSE lsp_parse_args(Tail(args_list),
                                DictSet(params, key,
                                        lsp_parse_value(SubSeq(arg, eq + 1, Len(arg)))))

parse_command_args(args_list) == lsp_parse_args(args_list, <<>>)

\* ------------------------------------------------------------------- state
VARIABLES
    script,          \* which script this run executes: "ext", "client" or "tool"
    input,           \* what the command line of the script names: the mode
                     \* ("file", "args" or "none") and the lines given
    segments,        \* parser runs: the parameter segments the input is written from
    parse_result,    \* parser runs: what the parser returned, NotParsed before
    parse_error,     \* the parse failure the script printed last, "" before
    interpolated_params, \* parser runs: what interpolate_variables returned or
                     \* raised, NotParsed before
    pc,              \* position of the script's main
    commands,        \* the command lines handed to run_test_sequence (ext) or
                     \* to parse_mcp_command (tool), each with its captures
    step,            \* ext: index of the loop of run_test_sequence; client: test number
    results,         \* the result list, in execution order
    last_result,     \* ext: context.last_result
    variables,       \* ext: context.variables
    request_id,      \* self.request_id
    server_process,  \* self.server_process / self.mcp_process: "None" or "Popen"
    proc,            \* the spawned process: "none", "running", "zombie" (exited, not
                     \* yet seen by the Popen object) or "reaped" (returncode set)
    ignores_term,    \* whether the server ignores SIGTERM
    wire,            \* the requests written to the server's stdin, in order
    answered,        \* how many of them the server has taken up
    ospipe,          \* response lines in the stdout pipe
    pybuf,           \* response lines already in the text reader's buffer
    exit_code,       \* the process exit code, -1 while running
    stop_calls,      \* calls of the teardown routine that found a process handle
    term_signals,    \* SIGTERMs delivered to the server
    kill_signals,    \* SIGKILLs delivered to the server
    tests_total,     \* client: self.tests_total
    tests_passed,    \* client: self.tests_passed
    tests_failed,    \* client: self.tests_failed
    response_data,   \* tool: the line run_mcp_tool has read, None before that
    ending           \* how main ended: "none" while it runs, "normal" when it
                     \* derived the exit code from the results, "error" when an
                     \* exception or a session failure ended it, "signal"

vars == <<script, input, segments, parse_result, parse_error, interpolated_params,
          pc, commands, step, results, last_result, variables, request_id,
          server_process, proc, ignores_term, wire, answered, ospipe, pybuf,
          exit_code, stop_calls, term_signals, kill_signals, tests_total,
          tests_passed, tests_failed, response_data, ending>>

counterVars == <<tests_total, tests_passed, tests_failed>>

NotParsed == [k |-> "NotParsed"]

\* ------------------------------------------------------------------ inputs
\* the command lines the runs of the model are given
CommandTexts ==
    { "foo(bar",
      "lsp:hover (MCP)(uri=\"a\", line=10)",
      Bullet \o " lsp:hover (MCP)(uri: \"a\", line: 10)",
      "lsp:hover (MCP)(line: ${last_result})",
      "lsp:hover (MCP)(line: ${myvar})" }

\* the lines a command file can hold: a command, or a blank line
FileLines == CommandTexts \cup {" "}

\* the default command of main (line 328)
DefaultCommand ==
    Bullet \o " lsp:project_analysis (MCP)(analysis_type: \"document_symbols\", "
        \o "query: \"mcpserver/tools.go\", "
        \o "workspace_uri: \"file:///home/rockerboo/code/mcp-lsp-bridge\")"

\* sep.join(args)
RECURSIVE join(_, _)
join(sep, args) ==
    IF args = <<>> THEN ""
    ELSE IF Len(args) = 1 THEN args[1]
    ELSE args[1] \o sep \o join(sep, Tail(args))

\* line 321: [line.strip() for line in f if line.strip()]
RECURSIVE file_commands(_)
file_commands(lines) ==
    IF lines = <<>> THEN <<>>
    ELSE IF strip(Head(lines)) # ""
         THEN <<strip(Head(lines))>> \o file_commands(Tail(lines))
         ELSE file_commands(Tail(lines))

\* lines 317-329 of main: the command list handed to run_test_sequence
main_commands(inp) ==
    CASE inp.mode = "file" -> file_commands(inp.lines)
      [] inp.mode = "args" -> <<join(" ", inp.lines)>>
      [] inp.mode = "none" -> <<DefaultCommand>>

Input(mode, lines) == [mode |-> mode, lines |-> lines]

RECURSIVE SeqsUpTo(_, _)
SeqsUpTo(S, n) ==
    IF n = 0 THEN {<<>>}
    ELSE LET shorter == SeqsUpTo(S, n - 1)
         IN shorter \cup {Append(q, x) : q \in shorter, x \in S}

\* the two calls LSPInitTester.run_test makes on one MCPToolRunner
\* (test_lsp_init.py lines 121 and 143-145): connect, then analyse a file; of
\* the second command the query is kept, cut down to the file's name
LSPInitCommands ==
    << "lsp_connect (MCP)(language=\"go\")",
       "project_analysis (MCP)(query=\"t.go\")" >>

\* the command lines by script: mcp_external_test.py takes a command file,
\* command strings or nothing (lines 317-329); an MCPToolRunner is handed one
\* command string by test_mcp_tools.py (line 240) or the two commands of
\* test_lsp_init.py; test_mcp_external.py takes none
Inputs(s) ==
    CASE s = "ext" ->
             {Input("file", l) : l \in SeqsUpTo(FileLines, MaxSteps)}
                 \cup {Input("args", l) : l \in SeqsUpTo(CommandTexts, MaxArgs) \ {<<>>}}
                 \cup {Input("none", <<>>)}
      [] s = "tool" -> {Input("args", <<c>>) : c \in CommandTexts}
                           \cup {Input("lsp_init", LSPInitCommands)}
      [] s = "client" -> {Input("none", <<>>)}

Init ==
    /\ script \in {"ext", "client", "tool"}
    /\ input \in Inputs(script)
    /\ segments = <<>>
    /\ parse_result = NotParsed
    /\ parse_error = ""
    /\ interpolated_params = NotParsed
    /\ pc = (IF script = "ext" THEN "run" ELSE "start")
    /\ \E given \in {IF script = "ext" THEN main_commands(input) ELSE input.lines} :
           commands = [i \in 1..Len(given) |->
                          IF script = "ext" THEN ext_captures(given[i])
                          ELSE tool_captures(given[i])]
    /\ step = 1
    /\ results = <<>>
    /\ last_result = None
    /\ variables = <<>>
    /\ request_id = 1
    /\ server_process = "None"
    /\ proc = "none"
    /\ ignores_term \in BOOLEAN
    /\ wire = <<>>
    /\ answered = 0
    /\ ospipe = <<>>
    /\ pybuf = <<>>
    /\ exit_code = -1
    /\ stop_calls = 0
    /\ term_signals = 0
    /\ kill_signals = 0
    /\ tests_total = 0
    /\ tests_passed = 0
    /\ tests_failed = 0
    /\ response_data = None
    /\ ending = "none"

\* ------------------------------------------------------------ the server
\* the server answers the oldest request it has not taken up yet
ServerReply ==
    /\ proc = "running"
    /\ pc # "exited"
    /\ answered < Len(wire)
    /\ wire[answered + 1].id # None
    /\ \E line \in ServerLines(wire[answered + 1].id) :
           ospipe' = Append(ospipe, line)
    /\ answered' = answered + 1
    /\ UNCHANGED <<script, input, segments, interpolated_params, parse_result, parse_error, pc, commands, step, results, last_result, variables,
                   request_id, server_process, proc, ignores_term, wire, pybuf,
                   exit_code, stop_calls, term_signals, kill_signals, counterVars,
                   response_data, ending>>

\* the server takes a request up and never writes a response to it
ServerDrop ==
    /\ proc = "running"
    /\ pc # "exited"
    /\ answered < Len(wire)
    /\ answered' = answered + 1
    /\ UNCHANGED <<script, input, segments, interpolated_params, parse_result, parse_error, pc, commands, step, results, last_result, variables,
                   request_id, server_process, proc, ignores_term, wire, ospipe, pybuf,
                   exit_code, stop_calls, term_signals, kill_signals, counterVars,
                   response_data, ending>>

\* the server process exits on its own
ServerExits ==
    /\ proc = "running"
    /\ pc # "exited"
    /\ proc' = "zombie"
    /\ UNCHANGED <<script, input, segments, interpolated_params, parse_result, parse_error, pc, commands, step, results, last_result, variables,
                   request_id, server_process, ignores_term, wire, answered, ospipe,
                   pybuf, exit_code, stop_calls, term_signals, kill_signals,
                   counterVars, response_data, ending>>

\* ----------------------------------------------------- the text-mode reader
\* stdout.readline() can return without blocking
CanReadLine == pybuf # <<>> \/ ospipe # <<>> \/ proc \in {"zombie", "reaped"}

\* the line stdout.readline() returns ("" at end of stream)
ReadLineValue ==
    IF pybuf # <<>> THEN Head(pybuf)
    ELSE IF ospipe # <<>> THEN Head(ospipe)
    ELSE EOFLine

\* the reader's buffer after that readline: a read from the pipe takes all of it
ReadLineBuf ==
    IF pybuf # <<>> THEN Tail(pybuf)
    ELSE IF ospipe # <<>> THEN Tail(ospipe)
    ELSE <<>>

ReadLinePipe == IF pybuf # <<>> THEN ospipe ELSE <<>>

\* -------------------------------------- mcp_external_test.py: the runner
\* the request envelope of _send_request / call_tool
Request(id, tool, arguments) ==
    [id |-> id, method |-> "tools/call", name |-> tool, arguments |-> arguments]

\* the dict run_test returns
StepResult(success, error, result) ==
    [success |-> success, error |-> error, result |-> result]

\* {"error": str(e)}, what _send_request returns when the write or the read raises
RequestFailed == [k |-> "error", id |-> None, payload |-> "exception"]

\* lines 152-156: the decoded response, or the error dict
ext_decode(line) == IF JsonFails(line) THEN RequestFailed ELSE line

\* lines 273-282: whether run_test reports the decoded response as a success
ext_is_success(result) == ~HasError(result)

\* mutant: a write to a process that has exited goes through
write_raises_Never(pr) == FALSE

\* stdin.write / stdin.flush (lines 149-150, and test_mcp_tools.py lines
\* 173-174) raise BrokenPipeError when the process at the reading end of the
\* pipe has exited
write_raises(pr) == pr # "running"

\* mutant: the counter is not advanced
next_request_id_Stuck(id) == id

\* line 145 (and test_mcp_external.py line 144): self.request_id += 1
next_request_id(id) == id + 1

\* mutant: the context is updated before the error check
ext_last_result_Always(result, prev) == result

\* lines 274-279: context.last_result after a decoded response
ext_last_result(result, prev) == IF ext_is_success(result) THEN result ELSE prev

\* mutant: the result list is overwritten with the latest result
ExtFinishStep_KeepLast(res) ==
    /\ results' = <<res>>
    /\ IF res.success
       THEN pc' = "run" /\ step' = step + 1
       ELSE pc' = "aborted" /\ step' = step

\* mutant: the loop lacks the break
ExtFinishStep_NoBreak(res) ==
    /\ results' = Append(results, res)
    /\ pc' = "run"
    /\ step' = step + 1

\* lines 295-299: append the result; stop the sequence if the test failed
ExtFinishStep(res) ==
    /\ results' = Append(results, res)
    /\ IF res.success
       THEN pc' = "run" /\ step' = step + 1
       ELSE pc' = "aborted" /\ step' = step

\* mutant: the parser answers from the state of the session
run_test_command_Stateful(cmd) ==
    IF last_result = None THEN parse_command(cmd) ELSE None

\* mutant: a line that does not parse is run as the hover command
run_test_command_Lenient(cmd) ==
    IF parse_command(cmd) = None
    THEN parse_command(ext_captures("lsp:hover (MCP)(line: 10)")) ELSE parse_command(cmd)

\* line 257: command = self.parse_command(command_string); the parser reads
\* nothing but its argument
run_test_command(cmd) == parse_command(cmd)

\* run_test of the next command line up to the blocking readline (lines 248-271,
\* 134-150), inside the loop of run_test_sequence (lines 293-299); _start_server
\* (lines 118-132) reports success as soon as Popen returns, also for a process
\* that exits at once
ExtRunTest ==
    /\ script = "ext"
    /\ pc = "run"
    /\ step <= Len(commands)
    /\ \E spawn \in {"spawn_fails", "exits_early", "alive"} :
        LET parsed == run_test_command(commands[step])
            need_start == server_process = "None"
            started == need_start /\ spawn # "spawn_fails"
            sp == IF started THEN "Popen" ELSE server_process
            pr == IF ~started THEN proc
                  ELSE IF spawn = "alive" THEN "running" ELSE "zombie"
            context == [last_result |-> last_result, variables |-> variables]
            interp == interpolate_variables(parsed.parameters, context)
            request == Request(IntId(request_id), parsed.tool_name, interp.params)
        IN IF parsed = None
           THEN /\ ExtFinishStep(StepResult(FALSE, "Invalid command format", None))
                /\ UNCHANGED <<server_process, proc, request_id, wire>>
           ELSE IF need_start /\ spawn = "spawn_fails"
           THEN /\ ExtFinishStep(StepResult(FALSE, "Failed to start MCP server", None))
                /\ UNCHANGED <<server_process, proc, request_id, wire>>
           ELSE IF interp.raised
           THEN /\ ExtFinishStep(StepResult(FALSE, interp.error, None))
                /\ server_process' = sp
                /\ proc' = pr
                /\ UNCHANGED <<request_id, wire>>
           ELSE IF write_raises(pr)
           THEN \* the except clause of _send_request returns {"error": str(e)}
                /\ ExtFinishStep(StepResult(FALSE, "none", RequestFailed))
                /\ request_id' = next_request_id(request_id)
                /\ server_process' = sp
                /\ proc' = pr
                /\ UNCHANGED wire
           ELSE /\ wire' = Append(wire, request)
                /\ request_id' = next_request_id(request_id)
                /\ server_process' = sp
                /\ proc' = pr
                /\ pc' = "await"
                /\ UNCHANGED <<step, results>>
    /\ parse_error' = IF parse_command(commands[step]) = None
                      THEN parse_command_error(commands[step]) ELSE parse_error
    /\ UNCHANGED <<script, input, segments, interpolated_params, parse_result, commands, last_result, variables, ignores_term, answered,
                   ospipe, pybuf, exit_code, stop_calls, term_signals, kill_signals,
                   counterVars, response_data, ending>>

\* the rest of run_test once readline returns (lines 152-156, 273-286, 295-299)
ExtReadResponse ==
    /\ script = "ext"
    /\ pc = "await"
    /\ CanReadLine
    /\ LET result == ext_decode(ReadLineValue)
       IN /\ last_result' = ext_last_result(result, last_result)
          /\ ExtFinishStep(StepResult(ext_is_success(result), "none", result))
    /\ pybuf' = ReadLineBuf
    /\ ospipe' = ReadLinePipe
    /\ UNCHANGED <<script, input, segments, interpolated_params, parse_result, parse_error, commands, variables, request_id, server_process, proc,
                   ignores_term, wire, answered, exit_code, stop_calls, term_signals,
                   kill_signals, counterVars, response_data, ending>>

\* mutant: any() in place of all()
ext_exit_code_Any(test_results) ==
    IF \E i \in 1..Len(test_results) : test_results[i].success THEN 0 ELSE 1

\* line 340: the exit code main computes from the result list
ext_exit_code(test_results) ==
    IF \A i \in 1..Len(test_results) : test_results[i].success THEN 0 ELSE 1

\* main after run_test_sequence returned (lines 333-340)
ExtMainExit ==
    /\ script = "ext"
    /\ \/ pc = "run" /\ step > Len(commands)
       \/ pc = "aborted"
    /\ exit_code' = ext_exit_code(results)
    /\ pc' = "finalize"
    /\ UNCHANGED <<script, input, segments, interpolated_params, parse_result, parse_error, commands, step, results, last_result, variables, request_id,
                   server_process, proc, ignores_term, wire, answered, ospipe, pybuf,
                   stop_calls, term_signals, kill_signals, counterVars, response_data>>
    /\ ending' = "normal"

\* Popen.terminate(): a signal is sent only to a process not known to have exited
TerminateSends == proc = "running"

\* __del__ (lines 303-310): terminate, wait up to 5 s, swallow every exception
ExtDel ==
    /\ script = "ext"
    /\ pc = "finalize"
    /\ IF server_process = "Popen"
       THEN /\ stop_calls' = stop_calls + 1
            /\ term_signals' = IF TerminateSends THEN term_signals + 1 ELSE term_signals
            /\ proc' = IF proc = "running" /\ ignores_term THEN "running" ELSE "reaped"
       ELSE UNCHANGED <<stop_calls, term_signals, proc>>
    /\ pc' = "exited"
    /\ UNCHANGED <<script, input, segments, interpolated_params, parse_result, parse_error, commands, step, results, last_result, variables, request_id,
                   server_process, ignores_term, wire, answered, ospipe, pybuf,
                   exit_code, kill_signals, counterVars, response_data, ending>>

\* SIGTERM to the script: no handler is installed, the interpreter dies at once
ExtSigTerm ==
    /\ script = "ext"
    /\ pc # "exited"
    /\ pc' = "exited"
    /\ exit_code' = 143
    /\ UNCHANGED <<script, input, segments, interpolated_params, parse_result, parse_error, commands, step, results, last_result, variables, request_id,
                   server_process, proc, ignores_term, wire, answered, ospipe, pybuf,
                   stop_calls, term_signals, kill_signals, counterVars, response_data>>
    /\ ending' = "signal"

\* SIGINT to the script: KeyboardInterrupt passes every `except Exception`
ExtSigInt ==
    /\ script = "ext"
    /\ pc \in {"run", "await", "aborted"}
    /\ pc' = "finalize"
    /\ exit_code' = 130
    /\ UNCHANGED <<script, input, segments, interpolated_params, parse_result, parse_error, commands, step, results, last_result, variables, request_id,
                   server_process, proc, ignores_term, wire, answered, ospipe, pybuf,
                   stop_calls, term_signals, kill_signals, counterVars, response_data>>
    /\ ending' = "signal"

\* ---------------------------------------- test_mcp_external.py: the client
\* the TestResult send_request returns
TestResult(success, error, response) ==
    [success |-> success, error |-> error, response |-> response]

\* the initialized notification of run_all_tests (lines 241-244): no id
Notification ==
    [id |-> None, method |-> "notifications/initialized", name |-> "none",
     arguments |-> <<>>]

\* the request envelope of send_request (lines 138-143)
ClientRequest(id) ==
    [id |-> id, method |-> "request", name |-> "none", arguments |-> <<>>]

\* mutant: the check for an error field is missing
client_decode_NoErrorCheck(line) ==
    IF line.k \in {"blank", "eof"} THEN TestResult(FALSE, "Empty response received", None)
    ELSE IF JsonFails(line) THEN TestResult(FALSE, "JSONDecodeError", None)
    ELSE TestResult(TRUE, "", line)

\* lines 169-184: the TestResult for the line readline returned
client_decode(line) ==
    IF line.k \in {"blank", "eof"} THEN TestResult(FALSE, "Empty response received", None)
    ELSE IF JsonFails(line) THEN TestResult(FALSE, "JSONDecodeError", None)
    ELSE IF HasError(line) THEN TestResult(FALSE, "Server returned error", line)
    ELSE TestResult(TRUE, "", line)

\* mutant: a failed request is sent again instead of being recorded
ClientFinishTest_Retry(res, pr) ==
    IF ~res.success /\ request_id <= MaxTests + 1
    THEN /\ pc' = "run"
         /\ UNCHANGED <<tests_total, tests_passed, tests_failed, results, step, wire>>
    ELSE /\ tests_total' = tests_total + 1
         /\ tests_passed' = IF res.success THEN tests_passed + 1 ELSE tests_passed
         /\ tests_failed' = IF res.success THEN tests_failed ELSE tests_failed + 1
         /\ results' = Append(results, res)
         /\ step' = step + 1
         /\ pc' = "run"
         /\ wire' = wire

\* mutant: a failed test ends run_all_tests
ClientFinishTest_Abort(res, pr) ==
    /\ tests_total' = tests_total + 1
    /\ tests_passed' = IF res.success THEN tests_passed + 1 ELSE tests_passed
    /\ tests_failed' = IF res.success THEN tests_failed ELSE tests_failed + 1
    /\ results' = Append(results, res)
    /\ step' = IF res.success THEN step + 1 ELSE MaxTests + 1
    /\ pc' = "run"
    /\ wire' = IF step = 1 /\ res.success /\ pr = "running"
               THEN Append(wire, Notification) ELSE wire

\* run_test (lines 204-220) and results.append of run_all_tests; after test 1
\* the initialized notification is written if the test passed (lines 240-250)
ClientFinishTest(res, pr) ==
    /\ tests_total' = tests_total + 1
    /\ tests_passed' = IF res.success THEN tests_passed + 1 ELSE tests_passed
    /\ tests_failed' = IF res.success THEN tests_failed ELSE tests_failed + 1
    /\ results' = Append(results, res)
    /\ step' = step + 1
    /\ pc' = "run"
    /\ wire' = IF step = 1 /\ res.success /\ pr = "running"
               THEN Append(wire, Notification) ELSE wire

\* build_project (lines 67-97) in main (lines 585-587)
ClientBuild ==
    /\ script = "client"
    /\ pc = "start"
    /\ \E built \in BOOLEAN :
        IF built THEN pc' = "built" /\ exit_code' = exit_code
        ELSE pc' = "finally" /\ exit_code' = 1
    /\ UNCHANGED <<script, input, segments, interpolated_params, parse_result, parse_error, commands, step, results, last_result, variables, request_id,
                   server_process, proc, ignores_term, wire, answered, ospipe, pybuf,
                   stop_calls, term_signals, kill_signals, counterVars, response_data>>
    /\ ending' = (IF pc' = "finally" THEN "error" ELSE ending)

\* mutant: the poll after the 2 s is missing
start_server_NoPoll(outcome) == outcome # "spawn_fails"

\* lines 101-131: what start_server returns: True only if Popen did not raise
\* and poll() still reports no exit code after the 2 s
start_server(outcome) == outcome = "alive"

\* start_server (lines 99-131) in main (lines 590-592): Popen, sleep 2 s, poll
ClientStartServer ==
    /\ script = "client"
    /\ pc = "built"
    /\ \E outcome \in {"spawn_fails", "exits_early", "alive"} :
        /\ server_process' = IF outcome = "spawn_fails" THEN "None" ELSE "Popen"
        /\ proc' = CASE outcome = "spawn_fails" -> "none"
                     [] outcome = "exits_early" -> "reaped"
                     [] outcome = "alive" -> "running"
        /\ IF start_server(outcome) THEN pc' = "run" /\ exit_code' = exit_code
           ELSE pc' = "finally" /\ exit_code' = 1
    /\ UNCHANGED <<script, input, segments, interpolated_params, parse_result, parse_error, commands, step, results, last_result, variables, request_id,
                   ignores_term, wire, answered, ospipe, pybuf, stop_calls,
                   term_signals, kill_signals, counterVars, response_data>>
    /\ ending' = (IF pc' = "finally" THEN "error" ELSE ending)

\* mutant: the next request is also written while a call is waiting
ClientSendRequest_Pipelined ==
    /\ script = "client"
    /\ pc \in {"run", "await"}
    /\ step <= MaxTests
    /\ Len(wire) <= MaxTests
    /\ server_process = "Popen" /\ proc = "running"
    /\ request_id' = next_request_id(request_id)
    /\ wire' = Append(wire, ClientRequest(IntId(request_id)))
    /\ pc' = "await"
    /\ UNCHANGED <<script, input, segments, interpolated_params, parse_result,
                   parse_error, commands, step, results, last_result, variables,
                   server_process, proc, ignores_term, answered, ospipe, pybuf,
                   exit_code, stop_calls, term_signals, kill_signals, counterVars,
                   response_data, ending>>

\* the next scripted request of run_all_tests: send_request up to select
\* (lines 133-163)
ClientSendRequest ==
    /\ script = "client"
    /\ pc = "run"
    /\ step <= MaxTests
    /\ request_id' = next_request_id(request_id)
    /\ IF server_process = "None" \/ proc # "running"
       THEN \* "Server process is not running": poll() has seen the exit
            /\ proc' = IF proc = "zombie" THEN "reaped" ELSE proc
            /\ ClientFinishTest(TestResult(FALSE, "Server process is not running", None),
                                "reaped")
       ELSE /\ wire' = Append(wire, ClientRequest(IntId(request_id)))
            /\ pc' = "await"
            /\ UNCHANGED <<proc, step, results, counterVars>>
    /\ UNCHANGED <<script, input, segments, interpolated_params, parse_result, parse_error, commands, last_result, variables, server_process,
                   ignores_term, answered, ospipe, pybuf, exit_code, stop_calls,
                   term_signals, kill_signals, response_data, ending>>

\* mutant: select only notices the end of the stream
SelectReady_ExitOnly == proc # "running"

\* select.select([stdout], [], [], 10.0) looks at the pipe, not at the reader's buffer
SelectReady == ospipe # <<>> \/ proc # "running"

\* lines 163-166: nothing became readable within the 10 s
ClientTimeout ==
    /\ script = "client"
    /\ pc = "await"
    /\ ~SelectReady
    /\ ClientFinishTest(TestResult(FALSE, "Request timed out", None), proc)
    /\ UNCHANGED <<script, input, segments, interpolated_params, parse_result, parse_error, commands, last_result, variables, request_id,
                   server_process, proc, ignores_term, answered, ospipe, pybuf,
                   exit_code, stop_calls, term_signals, kill_signals, response_data,
                   ending>>

\* lines 168-189: select reported the stream readable, readline, decode
ClientReadResponse ==
    /\ script = "client"
    /\ pc = "await"
    /\ SelectReady
    /\ ClientFinishTest(client_decode(ReadLineValue), proc)
    /\ pybuf' = ReadLineBuf
    /\ ospipe' = ReadLinePipe
    /\ UNCHANGED <<script, input, segments, interpolated_params, parse_result, parse_error, commands, last_result, variables, request_id,
                   server_process, proc, ignores_term, answered, exit_code, stop_calls,
                   term_signals, kill_signals, response_data, ending>>

\* lines 600-606: the value main returns after the report
client_exit_code(failed) == IF failed = 0 THEN 0 ELSE 1

\* generate_report and the return of main (lines 597-611)
ClientReport ==
    /\ script = "client"
    /\ pc = "run"
    /\ step > MaxTests
    /\ \E report_ok \in BOOLEAN :
        /\ exit_code' = IF report_ok THEN client_exit_code(tests_failed) ELSE 1
        /\ ending' = IF report_ok THEN "normal" ELSE "error"
    /\ pc' = "finally"
    /\ UNCHANGED <<script, input, segments, interpolated_params, parse_result, parse_error, commands, step, results, last_result, variables, request_id,
                   server_process, proc, ignores_term, wire, answered, ospipe, pybuf,
                   stop_calls, term_signals, kill_signals, counterVars, response_data>>

\* mutant: kill is not limited to the TimeoutExpired handler
CleanupEffect_AlwaysKill ==
    IF server_process = "Popen"
    THEN /\ stop_calls' = stop_calls + 1
         /\ term_signals' = IF TerminateSends THEN term_signals + 1 ELSE term_signals
         /\ kill_signals' = kill_signals + 1
         /\ proc' = "reaped"
    ELSE UNCHANGED <<stop_calls, term_signals, kill_signals, proc>>

\* cleanup (lines 536-547): terminate, wait 5 s, on TimeoutExpired kill and wait
CleanupEffect ==
    IF server_process = "Popen"
    THEN /\ stop_calls' = stop_calls + 1
         /\ term_signals' = IF TerminateSends THEN term_signals + 1 ELSE term_signals
         /\ kill_signals' = IF proc = "running" /\ ignores_term
                            THEN kill_signals + 1 ELSE kill_signals
         /\ proc' = "reaped"
    ELSE UNCHANGED <<stop_calls, term_signals, kill_signals, proc>>

\* the finally clause of main (lines 613-614)
ClientFinally ==
    /\ script = "client"
    /\ pc = "finally"
    /\ CleanupEffect
    /\ pc' = "exited"
    /\ UNCHANGED <<script, input, segments, interpolated_params, parse_result, parse_error, commands, step, results, last_result, variables, request_id,
                   server_process, ignores_term, wire, answered, ospipe, pybuf,
                   exit_code, counterVars, response_data, ending>>

\* signal_handler (lines 571-574) on SIGINT or SIGTERM: cleanup, sys.exit(1);
\* the SystemExit then unwinds main through its finally clause
ClientSignal ==
    /\ script = "client"
    /\ pc # "exited"
    /\ CleanupEffect
    /\ exit_code' = 1
    /\ pc' = IF pc = "finally" THEN "exited" ELSE "finally"
    /\ UNCHANGED <<script, input, segments, interpolated_params, parse_result, parse_error, commands, step, results, last_result, variables, request_id,
                   server_process, ignores_term, wire, answered, ospipe, pybuf,
                   counterVars, response_data>>
    /\ ending' = "signal"

ClientNext ==
    \/ ClientBuild
    \/ ClientStartServer
    \/ ClientSendRequest
    \/ ClientTimeout
    \/ ClientReadResponse
    \/ ClientReport
    \/ ClientFinally

\* -------------------------------------------- test_mcp_tools.py: the tool runner
\* lines 190-221: the value run_mcp_tool returns for the line it read
tool_success(line) == ~JsonFails(line) /\ ~HasError(line)

\* line 254: sys.exit(0 if success else 1)
tool_exit_code(success) == IF success THEN 0 ELSE 1

\* __enter__ / start_mcp_server (lines 27-45, 227-229); a Popen error reaches
\* the except clause of main (lines 255-257)
ToolEnter ==
    /\ script = "tool"
    /\ pc = "start"
    /\ \E spawn_ok \in BOOLEAN :
        IF spawn_ok
        THEN /\ server_process' = "Popen"
             /\ proc' = "running"
             /\ pc' = "entered"
             /\ exit_code' = exit_code
        ELSE /\ pc' = "exited"
             /\ exit_code' = 1
             /\ UNCHANGED <<server_process, proc>>
    /\ UNCHANGED <<script, input, segments, interpolated_params, parse_result, parse_error, commands, step, results, last_result, variables, request_id,
                   ignores_term, wire, answered, ospipe, pybuf, stop_calls,
                   term_signals, kill_signals, counterVars, response_data>>
    /\ ending' = (IF pc' = "exited" THEN "error" ELSE ending)

\* parse_mcp_command and run_mcp_tool up to the blocking readline
\* (lines 252-253, 146-176)
ToolRunMcpTool ==
    /\ script = "tool"
    /\ pc = "entered"
    /\ \E u \in 1..NumUUIDs :
        LET parsed == parse_mcp_command(commands[step])
            request == Request(UuidId(u), parsed.tool_name, parsed.params)
        IN IF parsed.raised
           THEN /\ exit_code' = 1
                /\ ending' = "error"
                /\ pc' = "with_exit"
                /\ UNCHANGED <<wire, results>>
           ELSE IF write_raises(proc)
           THEN /\ exit_code' = tool_exit_code(FALSE)
                /\ ending' = "normal"
                /\ results' = Append(results, StepResult(FALSE, "write failed", None))
                /\ pc' = "with_exit"
                /\ UNCHANGED wire
           ELSE /\ wire' = Append(wire, request)
                /\ pc' = "await"
                /\ UNCHANGED <<exit_code, results, ending>>
    /\ parse_error' = IF parse_mcp_command(commands[step]).raised
                      THEN "Error: " \o parse_mcp_command(commands[step]).error
                      ELSE parse_error
    /\ UNCHANGED <<script, input, segments, interpolated_params, parse_result, commands, step, last_result, variables, request_id,
                   server_process, proc, ignores_term, answered, ospipe, pybuf,
                   stop_calls, term_signals, kill_signals, counterVars, response_data>>

\* line 179: stdout.readline() returns
ToolReadLine ==
    /\ script = "tool"
    /\ pc = "await"
    /\ CanReadLine
    /\ response_data' = ReadLineValue
    /\ pybuf' = ReadLineBuf
    /\ ospipe' = ReadLinePipe
    /\ pc' = "communicate"
    /\ UNCHANGED <<script, input, segments, interpolated_params, parse_result, parse_error, commands, step, results, last_result, variables, request_id,
                   server_process, proc, ignores_term, wire, answered, exit_code,
                   stop_calls, term_signals, kill_signals, counterVars, ending>>

\* line 184 on: communicate() closes stdin and returns once the process has
\* exited; then the response is judged (lines 190-221). main exits with the
\* verdict (line 254); LSPInitTester.run_test goes on to its second call when
\* the first one passed (test_lsp_init.py lines 194-198)
ToolCommunicate ==
    /\ script = "tool"
    /\ pc = "communicate"
    /\ proc \in {"zombie", "reaped"}
    /\ proc' = "reaped"
    /\ pybuf' = <<>>
    /\ ospipe' = <<>>
    /\ results' = Append(results,
                         StepResult(tool_success(response_data), "none", response_data))
    /\ IF tool_success(response_data) /\ step < Len(commands)
       THEN /\ step' = step + 1
            /\ pc' = "entered"
            /\ UNCHANGED <<exit_code, ending>>
       ELSE /\ exit_code' = tool_exit_code(tool_success(response_data))
            /\ pc' = "with_exit"
            /\ ending' = "normal"
            /\ step' = step
    /\ UNCHANGED <<script, input, segments, interpolated_params, parse_result, parse_error, commands, last_result, variables, request_id,
                   server_process, ignores_term, wire, answered, stop_calls,
                   term_signals, kill_signals, counterVars, response_data>>

\* stop_mcp_server (lines 47-66): terminate, wait 5 s, kill on TimeoutExpired,
\* communicate, forget the handle
StopMcpServerEffect ==
    IF server_process = "Popen"
    THEN /\ stop_calls' = stop_calls + 1
         /\ term_signals' = IF TerminateSends THEN term_signals + 1 ELSE term_signals
         /\ kill_signals' = IF proc = "running" /\ ignores_term
                            THEN kill_signals + 1 ELSE kill_signals
         /\ proc' = "reaped"
         /\ server_process' = "None"
    ELSE UNCHANGED <<stop_calls, term_signals, kill_signals, proc, server_process>>

\* __exit__ (lines 231-232) as the with block of main is left
ToolExit ==
    /\ script = "tool"
    /\ pc = "with_exit"
    /\ StopMcpServerEffect
    /\ pc' = "exited"
    /\ UNCHANGED <<script, input, segments, interpolated_params, parse_result, parse_error, commands, step, results, last_result, variables, request_id,
                   ignores_term, wire, answered, ospipe, pybuf, exit_code, counterVars,
                   response_data, ending>>

\* SIGTERM to the script: no handler is installed, the interpreter dies at once
ToolSigTerm ==
    /\ script = "tool"
    /\ pc # "exited"
    /\ pc' = "exited"
    /\ exit_code' = 143
    /\ UNCHANGED <<script, input, segments, interpolated_params, parse_result, parse_error, commands, step, results, last_result, variables, request_id,
                   server_process, proc, ignores_term, wire, answered, ospipe, pybuf,
                   stop_calls, term_signals, kill_signals, counterVars, response_data>>
    /\ ending' = "signal"

\* SIGINT to the script: KeyboardInterrupt leaves the with block through __exit__
ToolSigInt ==
    /\ script = "tool"
    /\ pc \in {"entered", "await", "communicate"}
    /\ pc' = "with_exit"
    /\ exit_code' = 130
    /\ UNCHANGED <<script, input, segments, interpolated_params, parse_result, parse_error, commands, step, results, last_result, variables, request_id,
                   server_process, proc, ignores_term, wire, answered, ospipe, pybuf,
                   stop_calls, term_signals, kill_signals, counterVars, response_data>>
    /\ ending' = "signal"

ToolNext == ToolEnter \/ ToolRunMcpTool \/ ToolReadLine \/ ToolCommunicate \/ ToolExit

ExtNext == ExtRunTest \/ ExtReadResponse \/ ExtMainExit \/ ExtDel

SignalNext == ExtSigTerm \/ ExtSigInt \/ ClientSignal \/ ToolSigTerm \/ ToolSigInt

ServerNext == ServerReply \/ ServerDrop \/ ServerExits

Next == ExtNext \/ ClientNext \/ ToolNext \/ SignalNext \/ ServerNext

Spec == Init /\ [][Next]_vars

\* ------------------------------------------------- the parsers on their own
\* A second specification: one run is one call of one script's parameter
\* parser on a command written from a list of parameter segments.
\* "lsp" is test_lsp_command.py, whose parser takes the segments as a list.

\* most parameter segments of one command
MaxParams == 2

\* the value texts a segment is written with
ValueTokens ==
    { "10", "+5", "-5", "010",
      "true", "True", "FALSE",
      "\"10\"", "\"${name}\"", "\"a\"",
      "${name}", "${last_result}", "\"<VAR:name>\"",
      "[1,2]", "[[1,2],[3]]" }

Segment(key, value) == [key |-> key, value |-> value]

\* a segment without a key and a separator
BareSegment == Segment("", "oops")

\* the i-th segment of a command has the i-th letter as its key
SegmentKey(i) == At(ascii_lowercase, i)

RECURSIVE SegmentLists(_)
SegmentLists(n) ==
    IF n = 0 THEN {<<>>}
    ELSE {Append(q, seg) : q \in SegmentLists(n - 1),
                           seg \in {Segment(SegmentKey(n), t) : t \in ValueTokens}
                                       \cup {BareSegment}}

\* the segment as written, with the separator of the script's syntax
render(seg, sep) == IF seg.key = "" THEN seg.value ELSE seg.key \o sep \o seg.value

rendered(segs, sep) == [i \in 1..Len(segs) |-> render(segs[i], sep)]

\* the input of the parser: a command line, or the argument list
parser_input(s, segs) ==
    CASE s = "ext" -> Input("args", <<"lsp:hover (MCP)(" \o join(", ", rendered(segs, ": ")) \o ")">>)
      [] s = "tool" -> Input("args", <<"lsp:hover (MCP)(" \o join(", ", rendered(segs, "=")) \o ")">>)
      [] s = "lsp" -> Input("args", rendered(segs, "="))

\* the parameters of the documented invocation
\* lsp:hover (MCP)(uri="file:///a.ts", line=10, character=5)
HoverSegments ==
    <<Segment("uri", "\"file:///a.ts\""), Segment("line", "10"),
      Segment("character", "5")>>

\* the documented invocation as it is written, with "=" between key and value
HoverExample == "lsp:hover (MCP)(" \o join(", ", rendered(HoverSegments, "=")) \o ")"

\* the context a caller hands to run_test / interpolate_variables
ContextResults == {None, ResultLine(IntId(1), "p1")}

ContextVariables == {<<>>, <<[key |-> "name", val |-> PyInt(7)]>>}

runVars == <<commands, step, results, request_id,
             server_process, proc, ignores_term, wire, answered, ospipe, pybuf,
             exit_code, stop_calls, term_signals, kill_signals, counterVars,
             response_data, ending>>

ParserInit ==
    /\ script \in {"ext", "tool", "lsp"}
    /\ segments \in UNION {SegmentLists(n) : n \in 1..MaxParams} \cup {HoverSegments}
    /\ input \in {parser_input(script, segments)}
                    \cup (IF script = "ext" /\ segments = HoverSegments
                          THEN {Input("args", <<HoverExample>>)} ELSE {})
    /\ parse_result = NotParsed
    /\ parse_error = ""
    /\ interpolated_params = NotParsed
    /\ pc = "parse"
    /\ commands = <<>>
    /\ step = 1
    /\ results = <<>>
    /\ last_result \in (IF script = "ext" THEN ContextResults ELSE {None})
    /\ variables \in (IF script = "ext" THEN ContextVariables ELSE {<<>>})
    /\ request_id = 1
    /\ server_process = "None"
    /\ proc = "none"
    /\ ignores_term = FALSE
    /\ wire = <<>>
    /\ answered = 0
    /\ ospipe = <<>>
    /\ pybuf = <<>>
    /\ exit_code = -1
    /\ stop_calls = 0
    /\ term_signals = 0
    /\ kill_signals = 0
    /\ tests_total = 0
    /\ tests_passed = 0
    /\ tests_failed = 0
    /\ response_data = None
    /\ ending = "none"

\* mcp_external_test.py: parse_command(command_string)
ParseExt ==
    /\ script = "ext"
    /\ pc = "parse"
    /\ \E text \in {input.lines[1]} :
           /\ parse_result' = parse_command(ext_captures(text))
           /\ parse_error' = IF parse_command(ext_captures(text)) = None
                             THEN parse_command_error(ext_captures(text))
                             ELSE parse_error
    /\ pc' = "parsed"
    /\ UNCHANGED <<script, input, segments, interpolated_params, last_result, variables, runVars>>

\* test_mcp_tools.py: parse_mcp_command(command_str)
ParseTool ==
    /\ script = "tool"
    /\ pc = "parse"
    /\ \E text \in {input.lines[1]} :
           /\ parse_result' = parse_mcp_command(tool_captures(text))
           /\ parse_error' = IF parse_mcp_command(tool_captures(text)).raised
                             THEN parse_mcp_command(tool_captures(text)).error
                             ELSE parse_error
    /\ pc' = "parsed"
    /\ UNCHANGED <<script, input, segments, interpolated_params, last_result, variables, runVars>>

\* test_lsp_command.py: parse_command_args(args_list)
ParseLsp ==
    /\ script = "lsp"
    /\ pc = "parse"
    /\ \E args_list \in {input.lines} : parse_result' = parse_command_args(args_list)
    /\ pc' = "parsed"
    /\ UNCHANGED <<script, input, segments, parse_error, interpolated_params, last_result, variables, runVars>>

\* mcp_external_test.py: interpolate_variables(command.parameters, context)
\* (line 268) on the parameters parse_command returned
\* a variant that remembers every name it resolved in context.variables
context_after_Caching(params, context) ==
    [context EXCEPT !.variables = DictSet(@, "resolved", PyInt(Len(params)))]

\* the caller's context when interpolate_variables returns or raises: lines
\* 234-242 read context.last_result and context.variables and assign neither
context_after(params, context) == context

InterpolateExt ==
    /\ script = "ext"
    /\ pc = "parsed"
    /\ parse_result # None
    /\ \E context \in {[last_result |-> last_result, variables |-> variables]} :
           /\ interpolated_params' = interpolate_variables(parse_result.parameters, context)
           /\ last_result' = context_after(parse_result.parameters, context).last_result
           /\ variables' = context_after(parse_result.parameters, context).variables
    /\ pc' = "interpolated"
    /\ UNCHANGED <<script, input, segments, parse_result, parse_error, runVars>>

ParserNext == ParseExt \/ ParseTool \/ ParseLsp \/ InterpolateExt

ParserSpec == ParserInit /\ [][ParserNext]_vars

\* ================================================================ claims
\* the requests with an id among what was written (notifications carry none)
RequestsWritten == SelectSeq(wire, LAMBDA r : r.id # None)

HasFailure(rs) == \E i \in 1..Len(rs) : ~rs[i].success

\* the step's command parses and one of its parameters is ${last_result}
RefsLastResult(cmd) ==
    /\ parse_command(cmd) # None
    /\ \E i \in 1..Len(parse_command(cmd).parameters) :
           parse_command(cmd).parameters[i].val = PyStr("<VAR:last_result>")

\* the program's own steps, without signals and without the server's
ProgramNext == ExtNext \/ ClientNext \/ ToolNext

\* C1: abort on first failure. In run_test_sequence a failed result is always
\* the last entry of the result list, and once it is recorded no further request
\* is written and no further result is appended.
C1_AbortOnFirstFailure ==
    /\ [](script = "ext" =>
            \A k \in 1..Len(results) : ~results[k].success =>
                /\ Len(results) = k
                /\ Len(wire) <= k
                /\ pc \notin {"run", "await"})
    /\ [][(script = "ext" /\ HasFailure(results)) =>
            (wire' = wire /\ results' = results /\ request_id' = request_id)]_vars

\* three steps, the second fails on its response: two results, two requests
C1_Witness ==
    /\ script = "ext"
    /\ Len(commands) = 3
    /\ Len(results) = 2
    /\ results[1].success
    /\ ~results[2].success
    /\ Len(wire) = 2
    /\ pc = "exited"

C3_SilentServerTimesOut ==
    (/\ script \in {"ext", "client"}
     /\ pc = "await"
     /\ proc = "running"
     /\ answered = Len(wire)
     /\ ospipe = <<>>
     /\ pybuf = <<>>) => ENABLED ProgramNext

\* C4: a first step that references ${last_result} fails without a request
\* being written (the id counter stays at 1), with the undefined-variable error
\* whenever the server could be spawned.
C4_LastResultUndefined ==
    (script = "ext" /\ commands # <<>> /\ RefsLastResult(commands[1])) =>
        /\ wire = <<>>
        /\ request_id = 1
        /\ pc # "await"
        /\ last_result = None
        /\ results # <<>> =>
            /\ Len(results) = 1
            /\ ~results[1].success
            /\ server_process = "Popen" =>
                   results[1].error = "No previous result available for variable last_result"

C4_Witness ==
    /\ script = "ext"
    /\ Len(commands) >= 2
    /\ RefsLastResult(commands[1])
    /\ Len(results) = 1
    /\ results[1].error = "No previous result available for variable last_result"
    /\ pc = "exited"

\* the value the n-th request carries for each parameter of the n-th command
\* that is ${last_result}
LastResultArgs(n) ==
    LET ps == parse_command(commands[n]).parameters
    IN {DictLookup(wire[n].arguments, ps[i].key) :
            i \in {j \in 1..Len(ps) : ps[j].val = PyStr("<VAR:last_result>")}}

\* C5: a step that references ${last_result} after a successful step does not
\* fail as undefined, and the request written for it carries the previous
\* step's result as a mapping.
C5_LastResultInterpolated ==
    script = "ext" =>
        \A n \in 2..Len(results) :
            RefsLastResult(commands[n]) =>
                /\ results[n].error # "No previous result available for variable last_result"
                /\ Len(wire) >= n => LastResultArgs(n) = {PyDict(results[n - 1].result)}

\* C6 (as stated): every step that ends with a decoded response, a reported
\* tool error included, overwrites last_result with that response.
C6_OverwrittenOnAnyResponse ==
    [][(/\ script = "ext"
        /\ Len(results') = Len(results) + 1
        /\ results'[Len(results')].result \notin {None, RequestFailed})
        => last_result' = results'[Len(results')].result]_vars

\* C6 (amended): last_result is overwritten by exactly the steps that succeed,
\* with the decoded response; a step whose response carries an error field,
\* like every other failed step, leaves it unchanged.
C6_OverwrittenOnSuccessOnly ==
    [][script = "ext" =>
        IF Len(results') = Len(results) + 1 /\ results'[Len(results')].success
        THEN last_result' = results'[Len(results')].result
        ELSE last_result' = last_result]_vars

\* a reported tool error after a success: last_result still is the first response
C6_Witness ==
    /\ script = "ext"
    /\ Len(results) = 2
    /\ results[2].result = ErrorLine(IntId(2))
    /\ last_result = results[1].result
    /\ last_result.k = "result"

\* every step of the run was executed
AllStepsRan ==
    Len(results) = CASE script = "ext" -> Len(commands)
                     [] script = "client" -> MaxTests
                     [] script = "tool" -> 1

\* C7: the exit code is 0 exactly when main ended normally with every step
\* executed and successful; a failed step, an aborted sequence, an error or a
\* signal gives a non-zero exit code.
C7_ExitCode ==
    pc = "exited" =>
        (exit_code = 0 <=>
            /\ ending = "normal"
            /\ AllStepsRan
            /\ \A i \in 1..Len(results) : results[i].success)

C7_Witness ==
    /\ script = "ext"
    /\ pc = "exited"
    /\ ending = "normal"
    /\ Len(results) = 2
    /\ results[1].success
    /\ ~results[2].success
    /\ exit_code = 1

\* C8: a run that ended after spawning a server has run its teardown, and the
\* teardown has signalled the process at most once. Stated of the two scripts
\* the claim names, mcp_external_test.py and test_mcp_external.py.
C8_ExactlyOneStop ==
    (script \in {"ext", "client"} /\ pc = "exited" /\ proc # "none") =>
        /\ stop_calls >= 1
        /\ term_signals <= 1
        /\ kill_signals <= 1

\* C9: a teardown of a session whose process has already exited, by an earlier
\* teardown or on its own, sends no signal and completes.
C9_StopIdempotent ==
    [][(stop_calls' = stop_calls + 1 /\ proc # "running") =>
        /\ term_signals' = term_signals
        /\ kill_signals' = kill_signals
        /\ proc' = "reaped"
        /\ pc' \in {"finally", "exited"}]_vars

\* the signal handler's cleanup followed by the cleanup of the finally clause
C9_Witness ==
    /\ script = "client"
    /\ stop_calls = 2
    /\ term_signals = 1
    /\ pc = "exited"

\* C10: once a teardown has returned the server process is not running.
C10_StoppedAfterStop == stop_calls >= 1 => proc # "running"

\* the decoded response a step's record holds (None when there is none)
RecordLine(rec) == IF script = "client" THEN rec.response ELSE rec.result

\* this step hands a line of the server to the code that judges it
ConsumesLine ==
    /\ Len(results') = Len(results) + 1
    /\ CASE script = "ext" -> pc = "await"
         [] script = "client" -> pc = "await" /\ SelectReady
         [] script = "tool" -> pc = "communicate"

ConsumedLine == IF script = "tool" THEN response_data ELSE ReadLineValue

\* C11: a response with a result field gives a successful step whose record
\* holds that response; a response with an error field gives a failed step,
\* returned as a record that holds the error response (MCPToolRunner returns
\* the bare verdict, which decides the exit code or lets the caller go on to
\* its next call).
C11_ResponseClassified ==
    [][ConsumesLine =>
        LET rec == results'[Len(results')]
        IN /\ ConsumedLine.k = "result" =>
                /\ rec.success
                /\ script # "tool" => RecordLine(rec) = ConsumedLine
                /\ script = "tool" =>
                       (exit_code' = 0 \/ (pc' = "entered" /\ step' = step + 1))
           /\ ConsumedLine.k = "error" =>
                /\ ~rec.success
                /\ script # "tool" => RecordLine(rec) = ConsumedLine
                /\ script = "tool" => exit_code' = 1]_vars

\* the client's first request is answered with a result, its second with an error
C11_Witness ==
    /\ script = "client"
    /\ Len(results) = 2
    /\ results[1].success
    /\ results[1].response.k = "result"
    /\ ~results[2].success
    /\ results[2].response = ErrorLine(IntId(2))

\* C12: a response line that is not valid JSON, or that decodes to an object
\* with neither a result nor an error field, is never recorded as a successful
\* step. Stated of the two clients the claim names.
C12_UndecodableNeverSuccess ==
    script \in {"ext", "client"} =>
        \A n \in 1..Len(results) :
            results[n].success => RecordLine(results[n]).k = "result"

\* C13: every response taken as the answer to the n-th request carries the
\* id n of that request.
C13_ResponseIdMatches ==
    script \in {"ext", "client"} =>
        \A n \in 1..Len(results) :
            LET line == RecordLine(results[n])
            IN (line # None /\ line.k \in {"result", "error"} /\ line.id # None)
                   => line.id = IntId(n)

\* the command strings the command line names: the arguments themselves, or
\* the non-empty lines of the file
GivenCommands ==
    IF input.mode = "args" THEN input.lines
    ELSE SelectSeq([i \in 1..Len(input.lines) |-> strip(input.lines[i])],
                   LAMBDA l : l # "")

\* C14: every command string given as an argument of its own, and every
\* non-empty line of a command file, is one step of the sequence, in the order
\* given: the sequence handed to run_test_sequence holds exactly these, and a
\* run in which every step succeeded has one result for each of them.
C14_EachGivenCommandOwnStep ==
    (script = "ext" /\ input.mode \in {"args", "file"}) =>
        /\ Len(commands) = Len(GivenCommands)
        /\ \A i \in 1..Len(commands) : commands[i].line = GivenCommands[i]
        /\ (ending = "normal" /\ exit_code = 0) => Len(results) = Len(GivenCommands)

\* the step of the sequence runner that handles a command line the command
\* pattern does not match, and the same for the single-command runner
ExtRejectsLine ==
    /\ script = "ext" /\ pc = "run" /\ step <= Len(commands)
    /\ ~commands[step].fmt
    /\ Len(results') = Len(results) + 1 \/ pc' = "await"

ToolRejectsLine ==
    /\ script = "tool" /\ pc = "entered"
    /\ ~commands[step].fmt
    /\ pc' \in {"with_exit", "await"} /\ ending' # "signal"

parse_failed ==
    CASE script = "ext" -> parse_result = None
      [] script = "tool" -> parse_result.raised
      [] script = "lsp" -> FALSE

\* the parameter mapping the parser returned
parsed_params ==
    CASE script = "ext" -> IF parse_result = None THEN <<>> ELSE parse_result.parameters
      [] script = "tool" -> parse_result.params
      [] script = "lsp" -> parse_result

\* the parameter of segment i was decoded as the value v
DecodedAs(i, v) ==
    /\ segments[i].key \in DictKeys(parsed_params)
    /\ DictLookup(parsed_params, segments[i].key) = v

AllKeyed == \A i \in 1..Len(segments) : segments[i].key # ""

ListLiterals == {"[1,2]", "[[1,2],[3]]"}

HasBracket(t) == CharsOf(t) \cap {"[", "]", "{", "}", "(", ")"} # {}

\* C15: the parameter splitter of test_mcp_tools.py cuts the parameter text
\* only at commas outside every bracket: when the bracketed values are list
\* literals, it returns exactly the segments the command was written from, and
\* each list literal, nested or not, is decoded as one list value.
C15_SplitsOnlyAtDepthZero ==
    (/\ script = "tool" /\ pc = "parsed"
     /\ \A i \in 1..Len(segments) :
            HasBracket(segments[i].value) => segments[i].value \in ListLiterals)
        => LET cut == tool_captures(input.lines[1]).params
           IN /\ Len(cut) = Len(segments)
              /\ \A i \in 1..Len(segments) :
                     /\ strip(cut[i]) = render(segments[i], "=")
                     /\ (AllKeyed /\ segments[i].value \in ListLiterals)
                            => DecodedAs(i, literal_eval(segments[i].value).val)

\* C17: a command with a segment that has no key and value is refused by the
\* parser: no parameter mapping is returned for it.
C17_UnsplittableSegmentFails ==
    (pc = "parsed" /\ \E i \in 1..Len(segments) : segments[i] = BareSegment)
        => parse_failed

\* ^[+-]?[0-9]+$
IsSignedInteger(t) ==
    LET d == IF At(t, 1) \in {"+", "-"} THEN Tail(t) ELSE t IN isdigit(d)

SignedValue(t) ==
    IF At(t, 1) = "-" THEN 0 - int(Tail(t))
    ELSE IF At(t, 1) = "+" THEN int(Tail(t)) ELSE int(t)

\* C18: every unquoted value of the form ^[+-]?[0-9]+$ is decoded as the
\* integer it denotes, by each of the three parsers.
C18_SignedIntegerDecoded ==
    (pc = "parsed" /\ AllKeyed) =>
        \A i \in 1..Len(segments) :
            IsSignedInteger(segments[i].value)
                => DecodedAs(i, PyInt(SignedValue(segments[i].value)))

\* C19: every unquoted value that is true or false in any letter case is
\* decoded as that boolean, by each of the three parsers.
C19_BooleanDecoded ==
    (pc = "parsed" /\ AllKeyed) =>
        \A i \in 1..Len(segments) :
            lower(segments[i].value) \in {"true", "false"}
                => DecodedAs(i, PyBool(lower(segments[i].value) = "true"))

IsQuoted(t) == Len(t) >= 2 /\ startswith(t, "\"") /\ endswith(t, "\"")

\* C20: every value written in quotes is decoded as the string between the
\* quotes, whatever it holds, by each of the three parsers.
C20_QuotedStaysString ==
    (pc = "parsed" /\ AllKeyed) =>
        \A i \in 1..Len(segments) :
            IsQuoted(segments[i].value)
                => DecodedAs(i, PyStr(SubSeq(segments[i].value, 2,
                                             Len(segments[i].value) - 1)))

\* the tool name the parser returned
parsed_tool_name ==
    IF parse_failed THEN "" ELSE parse_result.tool_name

\* C21: the documented invocation, given to a parser of the command syntax, is
\* parsed to the tool name hover, without the namespace, and to exactly the
\* parameters uri = "file:///a.ts" (a string), line = 10 and character = 5
\* (integers); every key=value parameter of a namespaced, tagged command
\* whose segments are all keyed is recovered under its key.
C21_HoverExampleRecovered ==
    (pc = "parsed" /\ script \in {"ext", "tool"}) =>
        /\ input.lines[1] = HoverExample =>
               /\ ~parse_failed
               /\ parsed_tool_name = "hover"
               /\ Len(parsed_params) = 3
               /\ DecodedAs(1, PyStr("file:///a.ts"))
               /\ DecodedAs(2, PyInt(10))
               /\ DecodedAs(3, PyInt(5))
        /\ (script = "tool" /\ AllKeyed) =>
               /\ ~parse_failed
               /\ \A i \in 1..Len(segments) : segments[i].key \in DictKeys(parsed_params)

\* ---- the session (Spec)
\* the last result record of the runner
LastResult(rs) == rs[Len(rs)]

ExitedBeforeAnswer ==
    /\ script \in {"ext", "client"}
    /\ pc = "await"
    /\ proc # "running"
    /\ answered < Len(wire)

\* C23: when the server has exited without answering the request the script
\* waits on, the step that ends the wait is recorded with success = false,
\* and not as a timeout.
C23_ExitBeforeAnswerFails ==
    [][ (ExitedBeforeAnswer /\ results' # results)
            => /\ ~LastResult(results').success
               /\ LastResult(results').error # "Request timed out" ]_vars

\* the script is about to send a request on a session whose process has exited
SendsOnDeadSession ==
    /\ server_process = "Popen"
    /\ proc # "running"
    /\ \/ script = "ext" /\ pc = "run"
       \/ script = "client" /\ pc = "run"
       \/ script = "tool" /\ pc = "entered"

\* C24: nothing is written to a server process that has exited. Every write
\* of a request or notification finds the process running, and a step that
\* sends on a session whose process has exited writes nothing and is recorded
\* as a failure (test_mcp_external.py: "Server process is not running").
C24_NoWriteToExitedProcess ==
    [][ /\ wire' # wire => (proc' = "running" /\ Len(wire') = Len(wire) + 1)
        /\ (SendsOnDeadSession /\ results' # results)
            => /\ wire' = wire
               /\ Len(results') = Len(results) + 1
               /\ ~LastResult(results').success
               /\ script = "client" =>
                      LastResult(results').error = "Server process is not running" ]_vars

\* the server answered the first command and exited; the second command was
\* not written, and its step is recorded as a failure
C24_Witness ==
    /\ script = "ext"
    /\ Len(results) = 2
    /\ results[1].success
    /\ results[2] = StepResult(FALSE, "none", RequestFailed)
    /\ Len(wire) = 1
    /\ proc = "zombie"
    /\ pc = "aborted"

\* the record carries a message: an error text, or the error payload
HasMessage(res) ==
    \/ res.error \notin {"", "none"}
    \/ (script = "ext" /\ res.result # None /\ HasError(res.result))

\* the step of the sequence runner that ends here met a failure: every step
\* that ends before a response line is read, and every response line that is
\* not a result
StepMetFailure ==
    /\ script \in {"ext", "client"}
    /\ \/ pc = "run"
       \/ pc = "await" /\ (~CanReadLine \/ ReadLineValue.k # "result")

\* C25: every failure a step of the sequence runner meets ends up in the
\* record of that step, with success = false and a message.
C25_FailuresAreRecorded ==
    [][ (StepMetFailure /\ results' # results)
            => /\ Len(results') = Len(results) + 1
               /\ ~LastResult(results').success
               /\ HasMessage(LastResult(results')) ]_vars

\* the arguments of a written request are the parsed parameters, but for the
\* values that are variable references
SameButRefs(arguments, parameters) ==
    /\ Len(arguments) = Len(parameters)
    /\ \A k \in 1..Len(parameters) :
           /\ arguments[k].key = parameters[k].key
           /\ ~IsVarPlaceholder(parameters[k].val)
                  => arguments[k].val = parameters[k].val

C27_CounterCountsWritten ==
    script \in {"ext", "client"} => request_id = 1 + Len(RequestsWritten)

\* ---- interpolation (ParserSpec)
\* the command writes the value of this key as a variable reference ${...}
\* (lines 202-206 of parse_command look at the value without its quotes)
WrittenAsReference(key) ==
    \E i \in 1..Len(segments) :
        /\ segments[i].key = key
        /\ LET v == strip_chars(segments[i].value, {"\""})
           IN startswith(v, "${") /\ endswith(v, "}")

\* C28: interpolate_variables changes neither the context nor the mapping it
\* is given, and every parameter the command does not write as a variable
\* reference is in its output with the value it was given.
C28_InterpolationIsPure ==
    [][ (script = "ext" /\ pc = "parsed" /\ pc' = "interpolated")
            => /\ UNCHANGED <<last_result, variables, parse_result>>
               /\ ~interpolated_params'.raised
                      => \A k \in 1..Len(parse_result.parameters) :
                             LET p == parse_result.parameters[k]
                             IN ~WrittenAsReference(p.key)
                                    => /\ p.key \in DictKeys(interpolated_params'.params)
                                       /\ DictLookup(interpolated_params'.params, p.key)
                                              = p.val ]_vars

\* ---- variable references in what is dispatched (Spec)
\* the value is a reference that was not resolved: the placeholder
\* parse_command writes, or the ${...} text of the command
IsUnresolved(v) ==
    /\ v.ty = "str"
    /\ \/ IsVarPlaceholder(v)
       \/ (startswith(v.c, "${") /\ endswith(v.c, "}"))

\* C29: no argument of a request mcp_external_test.py has written is an
\* unresolved variable reference: each reference of the command was replaced
\* by its value, or the step failed before the write.
C29_NoPlaceholderDispatched ==
    script = "ext" =>
        \A i \in 1..Len(wire) :
            \A k \in 1..Len(wire[i].arguments) :
                ~IsUnresolved(wire[i].arguments[k].val)

\* the second command refers to ${last_result}; its request was written with
\* the first response in place of the reference
C29_Witness ==
    /\ script = "ext"
    /\ Len(wire) = 2
    /\ commands[2].line = "lsp:hover (MCP)(line: ${last_result})"
    /\ results[1].success
    /\ wire[2].arguments = <<[key |-> "line", val |-> PyDict(results[1].result)]>>

\* ---- named variables (ParserSpec)
\* interpolate_variables raises at a parameter before the k-th
RaisesBefore(k) ==
    \E j \in 1..(k - 1) :
        resolve_value(parse_result.parameters[j].val,
                      [last_result |-> last_result, variables |-> variables]).raised

\* C30: a reference to a variable with a name other than last_result is
\* replaced by context.variables[name] when the name is defined; when it is
\* not, interpolate_variables raises "Undefined variable <name>". The last
\* result or a default value is never put in its place.
C30_NamedVariableResolved ==
    (script = "ext" /\ pc = "interpolated") =>
        \A k \in 1..Len(parse_result.parameters) :
            LET p == parse_result.parameters[k]
            IN (IsVarPlaceholder(p.val) /\ var_name(p.val) # "last_result") =>
                   IF var_name(p.val) \in DictKeys(variables)
                   THEN ~interpolated_params.raised
                            => DictLookup(interpolated_params.params, p.key)
                                   = DictLookup(variables, var_name(p.val))
                   ELSE /\ interpolated_params.raised
                        /\ ~RaisesBefore(k)
                               => interpolated_params.error
                                      = "Undefined variable " \o var_name(p.val)

\* ${name} with name defined as 7 and a last result at hand: 7 is sent
C30_Witness ==
    /\ script = "ext"
    /\ pc = "interpolated"
    /\ segments = <<Segment("a", "${name}")>>
    /\ last_result # None
    /\ variables = <<[key |-> "name", val |-> PyInt(7)]>>
    /\ interpolated_params
           = [raised |-> FALSE, params |-> <<[key |-> "a", val |-> PyInt(7)]>>,
              error |-> "none"]

\* ---- the result list (Spec)
\* C31: the result list changes only by an append at its end, and the entry
\* appended for the command line (or scripted test) number i is entry i: what
\* was appended before stays where it is.
C31_ResultsOnlyAppended ==
    [][ results' # results
            => /\ Len(results') = Len(results) + 1
               /\ SubSeq(results', 1, Len(results)) = results
               /\ Len(results') = step ]_vars

\* three command lines were executed: two successes and a failure, in order
C31_Witness ==
    /\ script = "ext"
    /\ Len(commands) = 3
    /\ Len(results) = 3
    /\ results[1].success
    /\ results[2].success
    /\ ~results[3].success
    /\ step = 3
    /\ pc = "aborted"

\* ---- one call at a time (Spec)
\* C32: requests are not pipelined. A request is written only when no call
\* is waiting for its response, one at a time, and every request written
\* before it has had its call end with a recorded result.
C32_NoPipelining ==
    [][ Len(RequestsWritten') > Len(RequestsWritten)
            => /\ pc # "await"
               /\ pc' = "await"
               /\ Len(RequestsWritten') = Len(RequestsWritten) + 1
               /\ Len(RequestsWritten) <= Len(results) ]_vars

\* the second request is on its way after the first call has ended
C32_Witness ==
    /\ script = "client"
    /\ pc = "await"
    /\ Len(RequestsWritten) = 2
    /\ Len(results) = 1

\* ---- no retry (Spec)
\* the steps (command lines, scripted tests) whose execution has begun: those
\* with a record, and the one that waits for its response or was cut off by a
\* signal
StepsBegun == Len(results) + (IF pc = "await" \/ ending = "signal" THEN 1 ELSE 0)

\* C33: no step is sent twice. The requests written never outnumber the
\* steps begun, each carries an id of its own, and in mcp_external_test.py
\* nothing is written once a step has failed; a step that timed out or failed
\* has its one record and the run moves on.
C33_NoRetry ==
    script \in {"ext", "client"} =>
        /\ Len(RequestsWritten) <= StepsBegun
        /\ \A i, j \in 1..Len(RequestsWritten) :
               i # j => RequestsWritten[i].id # RequestsWritten[j].id
        /\ (script = "ext" /\ \E i \in 1..Len(results) : ~results[i].success)
               => /\ pc \notin {"run", "await"}
                  /\ Len(RequestsWritten) <= Len(results)
                  /\ ~LastResult(results).success

\* the first test timed out; the request written next is that of the second
\* test, and the first has its one failed record
C33_Witness ==
    /\ script = "client"
    /\ pc = "await"
    /\ Len(results) = 1
    /\ results[1].error = "Request timed out"
    /\ Len(RequestsWritten) = 2
    /\ RequestsWritten[2].id = IntId(2)

\* ---- session start (Spec)
\* C34: the start of the session reports success only for a process that is
\* running when the start returns. In mcp_external_test.py a start that
\* leaves the handle set is a reported success; in test_mcp_external.py main
\* goes on to the tests only after a reported success, and leaves with exit
\* code 1 otherwise.
C34_StartReportsLiveProcess ==
    [][ /\ (script = "ext" /\ pc = "run"
             /\ server_process = "None" /\ server_process' = "Popen")
            => proc' = "running"
        /\ (script = "client" /\ pc = "built" /\ pc' # pc)
            => IF proc' = "running" THEN pc' \in {"run", "finally"}
               ELSE pc' = "finally" /\ exit_code' = 1 /\ wire' = wire ]_vars

\* ---- the timed read (Spec)
\* the id of the request the client waits on
CurrentId == IntId(request_id - 1)

\* a line that answers the request the client waits on has been emitted and
\* not been read yet
EmittedForCurrent ==
    \/ \E i \in 1..Len(ospipe) : ospipe[i].id = CurrentId
    \/ \E i \in 1..Len(pybuf) : pybuf[i].id = CurrentId

\* C35: the timed read of test_mcp_external.py reports a timeout only when
\* the server has emitted nothing to read for the request waited on, and
\* while a line for that request is there the read is due to return a line,
\* also when it arrived together with the late answer to an earlier request.
C35_TimeoutOnlyWithoutLine ==
    [][ (script = "client" /\ pc = "await")
            => /\ EmittedForCurrent => SelectReady
               /\ (results' # results
                      /\ LastResult(results').error = "Request timed out")
                     => (ospipe = <<>> /\ ~EmittedForCurrent)
               /\ (results' # results /\ ospipe # <<>>)
                     => LastResult(results') = client_decode(ReadLineValue) ]_vars

\* the late answer to the timed-out request 1 and the answer to request 2
\* arrived together: the read for request 2 returned a line, no timeout
C35_Witness ==
    /\ script = "client"
    /\ Len(results) = 2
    /\ results[1].error = "Request timed out"
    /\ results[2].error # "Request timed out"
    /\ results[2].response # None
    /\ Len(pybuf) = 1
    /\ pybuf[1].id = IntId(2)

C37_SessionLiveAfterCall ==
    (/\ script = "tool"
     /\ pc = "entered"
     /\ step = 2
     /\ results # <<>>
     /\ results[1].success) => (proc = "running" /\ ~write_raises(proc))

\* ---- steps that fail before dispatch (Spec)
\* the command parses and one of its references has no value in the context
RefsWithoutValue(cmd) ==
    /\ parse_command(cmd) # None
    /\ \E i \in 1..Len(parse_command(cmd).parameters) :
           LET v == parse_command(cmd).parameters[i].val
           IN /\ IsVarPlaceholder(v)
              /\ IF var_name(v) = "last_result"
                 THEN ~Truthy(last_result)
                 ELSE var_name(v) \notin DictKeys(variables)

\* C38: a step of run_test whose command does not parse, or refers to a
\* variable without a value, ends with a failed result and writes no request;
\* the request id counter and context.last_result stay as they were, and a
\* command that does not parse leaves the server unstarted as well.
C38_FailsBeforeDispatch ==
    [][ (/\ script = "ext"
         /\ pc = "run"
         /\ step <= Len(commands)
         /\ (results' # results \/ wire' # wire \/ request_id' # request_id)
         /\ (parse_command(commands[step]) = None \/ RefsWithoutValue(commands[step])))
            => /\ wire' = wire
               /\ request_id' = request_id
               /\ last_result' = last_result
               /\ Len(results') = Len(results) + 1
               /\ ~LastResult(results').success
               /\ parse_command(commands[step]) = None
                      => /\ server_process' = server_process
                         /\ proc' = proc
                         /\ LastResult(results').error = "Invalid command format" ]_vars

\* the first line was answered and started the server; the second line does not
\* parse: one request only, the counter at 2, the first answer still the last
C38_Witness ==
    /\ script = "ext"
    /\ Len(results) = 2
    /\ results[1].success
    /\ results[2].error = "Invalid command format"
    /\ parse_command(commands[2]) = None
    /\ Len(wire) = 1
    /\ request_id = 2
    /\ last_result # None
    /\ server_process = "Popen"

\* ---- the scripted tests of test_mcp_external.py (Spec)
Passed(rs) == SelectSeq(rs, LAMBDA r : r.success)

\* C39: in run_all_tests every scripted request so far has exactly one result,
\* a failed one included, and the counters agree with the result list:
\* tests_total = tests_passed + tests_failed = the number of results. A run that
\* reaches the report has a result for every scripted request (MaxTests of
\* them in the model, 24 in the script), whatever failed.
C39_EveryTestRecorded ==
    script = "client" =>
        /\ tests_total = tests_passed + tests_failed
        /\ tests_total = Len(results)
        /\ tests_passed = Len(Passed(results))
        /\ Len(results) = step - 1
        /\ pc = "await" => step <= MaxTests
        /\ ending = "normal" => Len(results) = MaxTests

\* the first test timed out, the second one passed, and the run was reported
C39_Witness ==
    /\ script = "client"
    /\ ending = "normal"
    /\ Len(results) = MaxTests
    /\ ~results[1].success
    /\ results[MaxTests].success
    /\ tests_total = MaxTests
    /\ tests_failed >= 1
    /\ tests_passed >= 1
    /\ exit_code = 1

====
